---- MODULE Spec2Model ----
(***************************************************************************)
(* A model of env_logger's termcolor-backed styling                        *)
(* (src/fmt/termcolor/extern_impl.rs): the Color type and its parser, the  *)
(* Style builder, StyledValue formatting (apply the style, format the      *)
(* inner value, always reset) and the Buffer/BufferWriter sink.            *)
(*                                                                         *)
(* Five specifications share the variables:                                *)
(*   Spec       formatting of StyledValues into the shared sink            *)
(*   NeverSpec  the sink of a logger built with WriteStyle::Never          *)
(*   ValueSpec  StyledValues the caller keeps, and their Styles            *)
(*   StyleSpec  the Style builder and the level presets                    *)
(*   ParseSpec  Color::from_str on a bounded set of input strings          *)
(***************************************************************************)
EXTENDS Integers, Sequences, FiniteSets

VARIABLES
    writeStyle,  \* the WriteStyle the BufferWriter was built with
    colorOn,     \* what termcolor negotiated for it: does the buffer emit styling
    bytes,       \* the Buffer's accumulated output, as tagged tokens
    published,   \* what BufferWriter::print has sent to the stream
    borrowed,    \* the RefCell's borrow flag of the shared Buffer
    panicked,    \* a borrow_mut() found the Buffer already borrowed
    styles,      \* the caller's Style values, by slot
    lastSet,     \* history: the last argument given to each setter of each slot
    svs,         \* the caller's StyledValues, by slot
    stack,       \* the StyledValue::fmt calls in progress, innermost last
    trace,       \* history: what the current top-level formatting did to the sink
    nfmt,        \* formattings started by the current top-level formatting
    lastOp,      \* the operation the last step performed
    input,       \* ParseSpec: the string given to Color::from_str
    expect,      \* ParseSpec: what the grammar says the string denotes
    parsed       \* ParseSpec: the result of Color::from_str, once called

sinkVars == <<writeStyle, colorOn, bytes, published, borrowed, panicked>>
styleVars == <<styles, lastSet>>
fmtVars == <<svs, stack, trace, nfmt>>
parseVars == <<input, expect, parsed>>
vars == <<sinkVars, styleVars, fmtVars, lastOp, parseVars>>

(***************************************************************************)
(* Option and Result                                                       *)
(***************************************************************************)
None == <<>>
Some(x) == <<x>>

Ok(x) == [ok |-> TRUE, val |-> <<x>>, err |-> <<>>]
Err(e) == [ok |-> FALSE, val |-> <<>>, err |-> <<e>>]

(***************************************************************************)
(* Color                                                                   *)
(***************************************************************************)
NamedKinds == {"Black", "Blue", "Green", "Red", "Cyan", "Magenta", "Yellow", "White"}

\* env_logger's Color
Named(k) == [k |-> k, v |-> <<>>]
Ansi256(n) == [k |-> "Ansi256", v |-> <<n>>]
Rgb(r, g, b) == [k |-> "Rgb", v |-> <<r, g, b>>]
Nonexhaustive == [k |-> "__Nonexhaustive", v |-> <<>>]

\* termcolor's Color
TcNamed(k) == [tk |-> k, tv |-> <<>>]
TcAnsi256(n) == [tk |-> "Ansi256", tv |-> <<n>>]
TcRgb(r, g, b) == [tk |-> "Rgb", tv |-> <<r, g, b>>]
TcNonexhaustive == [tk |-> "__Nonexhaustive", tv |-> <<>>]

into_termcolor(color) ==
    CASE color.k \in NamedKinds -> Some(TcNamed(color.k))
      [] color.k = "Ansi256" -> Some(TcAnsi256(color.v[1]))
      [] color.k = "Rgb" -> Some(TcRgb(color.v[1], color.v[2], color.v[3]))
      [] OTHER -> None

from_termcolor_dropping_indexed(color) ==
    CASE color.tk \in NamedKinds -> Some(Named(color.tk))
      [] color.tk = "Rgb" -> Some(Rgb(color.tv[1], color.tv[2], color.tv[3]))
      [] OTHER -> None

from_termcolor(color) ==
    CASE color.tk \in NamedKinds -> Some(Named(color.tk))
      [] color.tk = "Ansi256" -> Some(Ansi256(color.tv[1]))
      [] color.tk = "Rgb" -> Some(Rgb(color.tv[1], color.tv[2], color.tv[3]))
      [] OTHER -> None

(***************************************************************************)
(* Strings are sequences of one-character strings.                         *)
(***************************************************************************)
LowerLetters == <<"a", "b", "c", "d", "e", "f", "g", "h", "i", "j", "k", "l", "m",
                  "n", "o", "p", "q", "r", "s", "t", "u", "v", "w", "x", "y", "z">>
UpperLetters == <<"A", "B", "C", "D", "E", "F", "G", "H", "I", "J", "K", "L", "M",
                  "N", "O", "P", "Q", "R", "S", "T", "U", "V", "W", "X", "Y", "Z">>
DecDigits == <<"0", "1", "2", "3", "4", "5", "6", "7", "8", "9">>

IndexOf(c, seq) ==
    IF \E i \in DOMAIN seq : seq[i] = c
    THEN CHOOSE i \in DOMAIN seq : seq[i] = c
    ELSE 0

LowerChar(c) ==
    IF IndexOf(c, UpperLetters) > 0 THEN LowerLetters[IndexOf(c, UpperLetters)] ELSE c

to_lowercase(s) == [i \in DOMAIN s |-> LowerChar(s[i])]

\* char::to_digit(radix): None (here -1) when c is no digit of the radix
ToDigit(c, radix) ==
    LET d == IF IndexOf(c, DecDigits) > 0 THEN IndexOf(c, DecDigits) - 1
             ELSE IF IndexOf(c, LowerLetters) > 0 THEN IndexOf(c, LowerLetters) + 9
             ELSE IF IndexOf(c, UpperLetters) > 0 THEN IndexOf(c, UpperLetters) + 9
             ELSE -1
    IN IF d < radix THEN d ELSE -1

U8Max == 255

\* u8::from_str_radix: every character a digit, at least one, no overflow
RECURSIVE RadixValue(_, _, _)
RadixValue(s, radix, acc) ==
    IF s = <<>> THEN Some(acc)
    ELSE LET d == ToDigit(Head(s), radix) IN
         IF d < 0 THEN None
         ELSE IF acc * radix + d > U8Max THEN None
         ELSE RadixValue(Tail(s), radix, acc * radix + d)

from_str_radix(s, radix) == IF s = <<>> THEN None ELSE RadixValue(s, radix, 0)

starts_with_0x(s) == Len(s) >= 2 /\ s[1] = "0" /\ s[2] = "x"

parse_number(s) ==
    IF starts_with_0x(s)
    THEN from_str_radix(SubSeq(s, 3, Len(s)), 16)
    ELSE from_str_radix(s, 10)

\* str::split(','): the pieces between the commas, empty ones included
RECURSIVE SplitFrom(_, _, _)
SplitFrom(s, cur, out) ==
    IF s = <<>> THEN Append(out, cur)
    ELSE IF Head(s) = "," THEN SplitFrom(Tail(s), <<>>, Append(out, cur))
    ELSE SplitFrom(Tail(s), Append(cur, Head(s)), out)

split_comma(s) == SplitFrom(s, <<>>, <<>>)

NameText(k) ==
    CASE k = "Black" -> <<"b", "l", "a", "c", "k">>
      [] k = "Blue" -> <<"b", "l", "u", "e">>
      [] k = "Green" -> <<"g", "r", "e", "e", "n">>
      [] k = "Red" -> <<"r", "e", "d">>
      [] k = "Cyan" -> <<"c", "y", "a", "n">>
      [] k = "Magenta" -> <<"m", "a", "g", "e", "n", "t", "a">>
      [] k = "Yellow" -> <<"y", "e", "l", "l", "o", "w">>
      [] k = "White" -> <<"w", "h", "i", "t", "e">>

TcParseError(kind, s) == [kind |-> kind, given |-> s]

\* termcolor::Color::from_str, as the documented grammar describes it: a name
\* matched case-insensitively, else one number, else three numbers.
TcFromStrNumeric(s) ==
    LET codes == split_comma(s) IN
    IF Len(codes) = 1
    THEN IF parse_number(codes[1]) # None
         THEN Ok(TcAnsi256(parse_number(codes[1])[1]))
         ELSE IF \A i \in DOMAIN s : ToDigit(s[i], 16) >= 0
              THEN Err(TcParseError("InvalidAnsi256", s))
              ELSE Err(TcParseError("InvalidName", s))
    ELSE IF Len(codes) = 3
    THEN IF \E i \in 1..3 : parse_number(codes[i]) = None
         THEN Err(TcParseError("InvalidRgb", s))
         ELSE Ok(TcRgb(parse_number(codes[1])[1], parse_number(codes[2])[1],
                       parse_number(codes[3])[1]))
    ELSE Err(TcParseError("InvalidRgb", s))

TcFromStr(s) ==
    IF \E k \in NamedKinds : NameText(k) = to_lowercase(s)
    THEN Ok(TcNamed(CHOOSE k \in NamedKinds : NameText(k) = to_lowercase(s)))
    ELSE TcFromStrNumeric(s)

\* termcolor::ParseColorError::invalid
TcInvalid(err) == err.given

\* ParseColorError, either kind
ParseColorError_termcolor(err) == [kind |-> "TermColor", tc |-> <<err>>, given |-> <<>>]
ParseColorError_unrecognized(given) == [kind |-> "Unrecognized", tc |-> <<>>, given |-> given]

invalid_losing_termcolor(err) ==
    IF err.kind = "TermColor" THEN <<>> ELSE err.given

invalid(err) ==
    IF err.kind = "TermColor" THEN TcInvalid(err.tc[1]) ELSE err.given

from_str(s) ==
    LET tc == TcFromStr(s) IN
    IF ~tc.ok THEN Err(ParseColorError_termcolor(tc.err[1]))
    ELSE IF from_termcolor(tc.val[1]) = None
         THEN Err(ParseColorError_unrecognized(s))
         ELSE Ok(from_termcolor(tc.val[1])[1])

(***************************************************************************)
(* Bounds                                                                  *)
(***************************************************************************)
MaxStyles == 1        \* Style slots the caller holds
MaxValues == 2        \* StyledValue slots the caller holds
MaxDepth == 2         \* formattings one top-level formatting makes, itself included,
                      \* and so also how deep they nest
MaxBytes == 1         \* the caller writes, formats or publishes while the buffer,
                      \* or the stream, holds fewer tokens than this

StyleSlots == 1..MaxStyles
ValueSlots == 1..MaxValues

Levels == {"Trace", "Debug", "Info", "Warn", "Error"}
FmtTraits == {"Debug", "Display", "Pointer", "Octal", "Binary",
              "UpperHex", "LowerHex", "UpperExp", "LowerExp"}

(***************************************************************************)
(* WriteStyle, BufferWriter and Buffer                                     *)
(***************************************************************************)
WriteStyles == {"Always", "Auto", "Never"}

into_color_choice_never_as_always(write_style) ==
    CASE write_style = "Always" -> "ColorChoice::Always"
      [] write_style = "Auto" -> "ColorChoice::Auto"
      [] write_style = "Never" -> "ColorChoice::Always"

into_color_choice(write_style) ==
    CASE write_style = "Always" -> "ColorChoice::Always"
      [] write_style = "Auto" -> "ColorChoice::Auto"
      [] write_style = "Never" -> "ColorChoice::Never"

\* termcolor's negotiation: Always styles, Never does not, Auto asks the
\* environment (either answer).
TcAttemptsColor(choice) ==
    CASE choice = "ColorChoice::Always" -> {TRUE}
      [] choice = "ColorChoice::Never" -> {FALSE}
      [] choice = "ColorChoice::Auto" -> BOOLEAN

\* BufferWriter::stderr / stdout followed by BufferWriter::buffer: the
\* styling mode the new Buffer is tied to.
BufferWriter_new(write_style) == TcAttemptsColor(into_color_choice(write_style))

Token(t, fid) == [t |-> t, fid |-> fid]

\* termcolor's Buffer: a styling buffer emits control bytes and may report an
\* I/O error; a non-styling one does nothing and succeeds.
TcStyleResults(on) == IF on THEN {"Ok", "Err"} ELSE {"Ok"}
TcStyleBytes(on, t, fid, res) == IF on /\ res = "Ok" THEN <<Token(t, fid)>> ELSE <<>>

Buffer_set_color(on, fid, res) == TcStyleBytes(on, "set", fid, res)
Buffer_reset(on, fid, res) == TcStyleBytes(on, "reset", fid, res)
Buffer_write(fid) == <<Token("data", fid)>>
Buffer_clear == <<>>

(***************************************************************************)
(* Style                                                                   *)
(***************************************************************************)
FormatterBuf == "buf"

ColorSpec_new == [fg |-> None, bg |-> None, bold |-> FALSE, intense |-> FALSE]

\* Formatter::style
Formatter_style == [buf |-> FormatterBuf, spec |-> ColorSpec_new]

set_color(style, color) ==
    [style EXCEPT !.spec = [@ EXCEPT !.fg = into_termcolor(color)]]

set_bold_and_intense(style, yes) ==
    [style EXCEPT !.spec = [@ EXCEPT !.bold = yes, !.intense = yes]]

set_bold(style, yes) ==
    [style EXCEPT !.spec = [@ EXCEPT !.bold = yes]]

set_intense(style, yes) ==
    [style EXCEPT !.spec = [@ EXCEPT !.intense = yes]]

set_bg(style, color) ==
    [style EXCEPT !.spec = [@ EXCEPT !.bg = into_termcolor(color)]]

default_level_style_plain_error(level) ==
    CASE level = "Trace" -> set_color(Formatter_style, Named("White"))
      [] level = "Debug" -> set_color(Formatter_style, Named("Blue"))
      [] level = "Info" -> set_color(Formatter_style, Named("Green"))
      [] level = "Warn" -> set_color(Formatter_style, Named("Yellow"))
      [] level = "Error" -> set_color(Formatter_style, Named("Red"))

default_level_style(level) ==
    CASE level = "Trace" -> set_color(Formatter_style, Named("White"))
      [] level = "Debug" -> set_color(Formatter_style, Named("Blue"))
      [] level = "Info" -> set_color(Formatter_style, Named("Green"))
      [] level = "Warn" -> set_color(Formatter_style, Named("Yellow"))
      [] level = "Error" -> set_bold(set_color(Formatter_style, Named("Red")), TRUE)

\* What the calls default_level_style makes leave as each setter's last argument
NeverSet == [fg |-> None, bg |-> None, bold |-> None, intense |-> None, preset |-> ""]

LevelColor(level) ==
    CASE level = "Trace" -> Named("White")
      [] level = "Debug" -> Named("Blue")
      [] level = "Info" -> Named("Green")
      [] level = "Warn" -> Named("Yellow")
      [] level = "Error" -> Named("Red")

LevelCalls(level) ==
    [NeverSet EXCEPT !.fg = Some(LevelColor(level)),
                     !.bold = IF level = "Error" THEN Some(TRUE) ELSE None,
                     !.preset = level]

(***************************************************************************)
(* StyledValue                                                             *)
(***************************************************************************)
NoValue == [live |-> FALSE, cow |-> "None", ref |-> 0,
            owned |-> Formatter_style, snap |-> ColorSpec_new]

\* Style::value: Cow::Borrowed(&self)
Style_value(i) ==
    [live |-> TRUE, cow |-> "Borrowed", ref |-> i,
     owned |-> Formatter_style, snap |-> styles[i].spec]

\* Style::into_value: Cow::Owned(self)
Style_into_value(style) ==
    [live |-> TRUE, cow |-> "Owned", ref |-> 0, owned |-> style, snap |-> style.spec]

\* Dereferencing the Cow: the Style a StyledValue formats with
StyleOf(sv) == IF sv.cow = "Borrowed" THEN styles[sv.ref] ELSE sv.owned

\* A Style lent out by value() cannot be borrowed mutably while the
\* StyledValue holding the shared borrow is alive.
MutableAlways(i) == TRUE

Mutable(i) == \A s \in ValueSlots : ~(svs[s].live /\ svs[s].cow = "Borrowed" /\ svs[s].ref = i)

Top == stack[Len(stack)]

Event(op, fid, res) == [op |-> op, fid |-> fid, res |-> res]

\* Result::and
ResultAndIgnoringReset(write, reset) == write

ResultAnd(write, reset) == IF write = "Ok" THEN reset ELSE write

\* Whether the RefMut taken for set_color is still held when the closure
\* runs: it is a temporary of the statement, dropped at its end.
RefMutKeptAcrossWrite == TRUE

RefMutHeldAfterApply == FALSE

\* The ? on the result of set_color: an error ends write_fmt there
ApplyErrorIgnored(res) == FALSE

ApplyFails(res) == res = "Err"

\* Whether write_fmt goes on to reset the sink once the closure has returned
ResetsOnlyAfterSuccess(write) == write = "Ok"

ResetsAfter(write) == TRUE

(***************************************************************************)
(* The caller's operations on Styles                                       *)
(***************************************************************************)
Idle == ~panicked /\ stack = <<>>

Op(op, arg) == [op |-> op, arg |-> arg]

SetColor(i, color) ==
    /\ Idle /\ Mutable(i)
    /\ styles' = [styles EXCEPT ![i] = set_color(@, color)]
    /\ lastSet' = [lastSet EXCEPT ![i].fg = Some(color), ![i].preset = ""]
    /\ lastOp' = Op("set_color", "")
    /\ UNCHANGED <<sinkVars, fmtVars, parseVars>>

SetBg(i, color) ==
    /\ Idle /\ Mutable(i)
    /\ styles' = [styles EXCEPT ![i] = set_bg(@, color)]
    /\ lastSet' = [lastSet EXCEPT ![i].bg = Some(color), ![i].preset = ""]
    /\ lastOp' = Op("set_bg", "")
    /\ UNCHANGED <<sinkVars, fmtVars, parseVars>>

SetBold(i, yes) ==
    /\ Idle /\ Mutable(i)
    /\ styles' = [styles EXCEPT ![i] = set_bold(@, yes)]
    /\ lastSet' = [lastSet EXCEPT ![i].bold = Some(yes), ![i].preset = ""]
    /\ lastOp' = Op("set_bold", "")
    /\ UNCHANGED <<sinkVars, fmtVars, parseVars>>

SetIntense(i, yes) ==
    /\ Idle /\ Mutable(i)
    /\ styles' = [styles EXCEPT ![i] = set_intense(@, yes)]
    /\ lastSet' = [lastSet EXCEPT ![i].intense = Some(yes), ![i].preset = ""]
    /\ lastOp' = Op("set_intense", "")
    /\ UNCHANGED <<sinkVars, fmtVars, parseVars>>

\* style = formatter.default_level_style(level)
DefaultLevelStyle(i, level) ==
    /\ Idle /\ Mutable(i)
    /\ styles' = [styles EXCEPT ![i] = default_level_style(level)]
    /\ lastSet' = [lastSet EXCEPT ![i] = LevelCalls(level)]
    /\ lastOp' = Op("default_level_style", "")
    /\ UNCHANGED <<sinkVars, fmtVars, parseVars>>

(***************************************************************************)
(* The caller's operations on StyledValues                                 *)
(***************************************************************************)
\* let v = style.value(..)
Value(s, i) ==
    /\ Idle /\ ~svs[s].live
    /\ svs' = [svs EXCEPT ![s] = Style_value(i)]
    /\ lastOp' = Op("value", "")
    /\ UNCHANGED <<sinkVars, styleVars, stack, trace, nfmt, parseVars>>

\* let v = style.clone().into_value(x): the StyledValue owns a copy of the
\* Style (its ref only remembers which Style the copy was taken from)
IntoValue(s, i) ==
    /\ Idle /\ ~svs[s].live
    /\ svs' = [svs EXCEPT ![s] = [Style_into_value(styles[i]) EXCEPT !.ref = i]]
    /\ lastOp' = Op("into_value", "")
    /\ UNCHANGED <<sinkVars, styleVars, stack, trace, nfmt, parseVars>>

\* let v = formatter.default_styled_level(level)
DefaultStyledLevel(s, level) ==
    /\ Idle /\ ~svs[s].live
    /\ svs' = [svs EXCEPT ![s] = Style_into_value(default_level_style(level))]
    /\ lastOp' = Op("default_styled_level", "")
    /\ UNCHANGED <<sinkVars, styleVars, stack, trace, nfmt, parseVars>>

\* the StyledValue goes out of scope
DropValue(s) ==
    /\ Idle /\ svs[s].live
    /\ svs' = [svs EXCEPT ![s] = NoValue]
    /\ lastOp' = Op("drop", "")
    /\ UNCHANGED <<sinkVars, styleVars, stack, trace, nfmt, parseVars>>

(***************************************************************************)
(* StyledValue::fmt, for each of the nine traits: write_fmt                *)
(***************************************************************************)
Frame(fid, sv) ==
    [fid |-> fid, pc |-> "inner", applied |-> StyleOf(sv).spec, snap |-> sv.snap,
     write |-> "", wrote |-> FALSE]

Abort ==
    /\ panicked' = TRUE
    /\ UNCHANGED <<writeStyle, colorOn, bytes, published, borrowed,
                   styleVars, fmtVars, parseVars>>

\* self.style.buf.borrow_mut().set_color(&self.style.spec).map_err(..)?
\* as formatting number fid, after the events in log
WriteFmtApply(sv, fid, log, trait, res) ==
    /\ sv.live
    /\ lastOp' = Op("fmt", trait)
    /\ IF borrowed THEN Abort
       ELSE /\ res \in TcStyleResults(colorOn)
            /\ nfmt' = fid
            /\ bytes' = bytes \o Buffer_set_color(colorOn, fid, res)
            /\ trace' = log \o <<Event("apply", fid, res)>>
                            \o (IF ApplyFails(res) THEN <<Event("return", fid, "Err")>>
                                ELSE <<>>)
            /\ stack' = IF ApplyFails(res) THEN stack ELSE Append(stack, Frame(fid, sv))
            /\ borrowed' = (RefMutHeldAfterApply /\ ~ApplyFails(res))
            /\ UNCHANGED <<writeStyle, colorOn, published, panicked,
                           styleVars, svs, parseVars>>

\* write!(buf, "{}", sv) by the caller
FormatValue(sv, trait, res) ==
    /\ Idle /\ Len(bytes) < MaxBytes
    /\ WriteFmtApply(sv, 1, <<>>, trait, res)

\* the inner value's own formatting formats another StyledValue
NestedFormat(sv, trait, res) ==
    /\ ~panicked /\ stack # <<>> /\ Top.pc = "inner"
    /\ nfmt < MaxDepth
    /\ WriteFmtApply(sv, nfmt + 1, trace, trait, res)

\* the inner value's formatting writes its text through the Formatter into
\* the Buffer (one token stands for all of it)
InnerWrite ==
    /\ ~panicked /\ stack # <<>> /\ Top.pc = "inner"
    /\ ~Top.wrote
    /\ lastOp' = Op("inner_write", "")
    /\ IF borrowed THEN Abort
       ELSE /\ bytes' = bytes \o Buffer_write(Top.fid)
            /\ trace' = Append(trace, Event("write", Top.fid, "Ok"))
            /\ stack' = [stack EXCEPT ![Len(stack)].wrote = TRUE]
            /\ UNCHANGED <<writeStyle, colorOn, published, borrowed, panicked,
                           styleVars, svs, nfmt, parseVars>>

\* let write = f();
InnerReturn(res) ==
    /\ ~panicked /\ stack # <<>> /\ Top.pc = "inner"
    /\ lastOp' = Op("inner_return", "")
    /\ IF ResetsAfter(res)
       THEN /\ stack' = [stack EXCEPT ![Len(stack)].pc = "reset",
                                      ![Len(stack)].write = res]
            /\ trace' = Append(trace, Event("inner_return", Top.fid, res))
       ELSE /\ stack' = SubSeq(stack, 1, Len(stack) - 1)
            /\ trace' = trace \o <<Event("inner_return", Top.fid, res),
                                   Event("return", Top.fid, res)>>
    /\ UNCHANGED <<sinkVars, styleVars, svs, nfmt, parseVars>>

\* let reset = self.style.buf.borrow_mut().reset().map_err(..); write.and(reset)
Reset(res) ==
    /\ ~panicked /\ stack # <<>> /\ Top.pc = "reset"
    /\ lastOp' = Op("reset", "")
    /\ IF borrowed /\ ~RefMutHeldAfterApply THEN Abort
       ELSE /\ res \in TcStyleResults(colorOn)
            /\ bytes' = bytes \o Buffer_reset(colorOn, Top.fid, res)
            /\ trace' = trace \o <<Event("reset", Top.fid, res),
                                   Event("return", Top.fid, ResultAnd(Top.write, res))>>
            /\ stack' = SubSeq(stack, 1, Len(stack) - 1)
            /\ borrowed' = FALSE
            /\ UNCHANGED <<writeStyle, colorOn, published, panicked,
                           styleVars, svs, nfmt, parseVars>>

(***************************************************************************)
(* The caller's operations on the Buffer                                   *)
(***************************************************************************)
\* Buffer::write outside any StyledValue
Write ==
    /\ Idle /\ Len(bytes) < MaxBytes
    /\ lastOp' = Op("write", "")
    /\ IF borrowed THEN Abort
       ELSE /\ bytes' = bytes \o Buffer_write(0)
            /\ UNCHANGED <<writeStyle, colorOn, published, borrowed, panicked,
                           styleVars, fmtVars, parseVars>>

\* BufferWriter::print: the buffer's bytes go to the stream; the buffer keeps them
Publish ==
    /\ Idle /\ bytes # <<>>
    /\ Len(published) < MaxBytes
    /\ published' = published \o bytes
    /\ lastOp' = Op("print", "")
    /\ UNCHANGED <<writeStyle, colorOn, bytes, borrowed, panicked,
                   styleVars, fmtVars, parseVars>>

\* Buffer::clear
Clear ==
    /\ Idle /\ bytes # <<>>
    /\ bytes' = Buffer_clear
    /\ lastOp' = Op("clear", "")
    /\ UNCHANGED <<writeStyle, colorOn, published, borrowed, panicked,
                   styleVars, fmtVars, parseVars>>

(***************************************************************************)
(* Color::from_str on one input                                            *)
(***************************************************************************)
Parse ==
    /\ parsed = None
    /\ parsed' = Some(from_str(input))
    /\ lastOp' = Op("from_str", "")
    /\ UNCHANGED <<sinkVars, styleVars, fmtVars, input, expect>>

(***************************************************************************)
(* Inputs of ParseSpec: strings built from tokens whose meaning is known   *)
(* from how they were written, not from parsing them.                      *)
(***************************************************************************)
MaxNum == 300         \* single integers up to here, in decimal and in hexadecimal
MaxComponents == 4    \* comma-separated components of one input

HexUpper == <<"0", "1", "2", "3", "4", "5", "6", "7", "8", "9",
              "A", "B", "C", "D", "E", "F">>
HexLower == <<"0", "1", "2", "3", "4", "5", "6", "7", "8", "9",
              "a", "b", "c", "d", "e", "f">>

RECURSIVE Digits(_, _, _)
Digits(n, base, digs) ==
    IF n < base THEN <<digs[n + 1]>>
    ELSE Append(Digits(n \div base, base, digs), digs[(n % base) + 1])

DecText(n) == Digits(n, 10, DecDigits)
HexText(n, digs) == <<"0", "x">> \o Digits(n, 16, digs)

NumToken(text, n) == [text |-> text, num |-> IF n <= 255 THEN n ELSE -1, name |-> ""]
NameToken(text, k) == [text |-> text, num |-> -1, name |-> k]
JunkToken(text) == [text |-> text, num |-> -1, name |-> ""]

CaseVariants(k) ==
    LET low == NameText(k) IN
    {[i \in DOMAIN low |-> IF i \in up THEN UpperLetters[IndexOf(low[i], LowerLetters)]
                           ELSE low[i]] : up \in SUBSET DOMAIN low}

NameTokens == UNION {{NameToken(t, k) : t \in CaseVariants(k)} : k \in NamedKinds}

NumTokens ==
    UNION {{NumToken(DecText(n), n), NumToken(HexText(n, HexUpper), n),
            NumToken(HexText(n, HexLower), n)} : n \in 0..MaxNum}

JunkTokens ==
    {JunkToken(<<>>),
     JunkToken(<<"n", "o", "t", "_", "a", "_", "c", "o", "l", "o", "r">>),
     JunkToken(<<"0", "x">>),
     JunkToken(<<"0", "X", "1", "F">>),
     JunkToken(<<"f", "f">>),
     JunkToken(<<"-", "1">>),
     JunkToken(<<" ", "7">>),
     JunkToken(<<"1", "2", "a">>),
     JunkToken(<<"r", "e", "d", " ">>)}

ListTokens ==
    {NumToken(DecText(0), 0), NumToken(DecText(128), 128), NumToken(DecText(256), 256),
     NumToken(HexText(51, HexUpper), 51), NumToken(HexText(256, HexUpper), 256),
     JunkToken(<<>>), NameToken(NameText("Red"), "Red")}

InputShapes ==
    {<<t>> : t \in NameTokens \cup NumTokens \cup JunkTokens}
        \cup UNION {[1..n -> ListTokens] : n \in 2..MaxComponents}

RECURSIVE Join(_)
Join(toks) ==
    IF Len(toks) = 1 THEN toks[1].text
    ELSE toks[1].text \o <<",">> \o Join(Tail(toks))

\* What the accepted grammar makes of the tokens
Expect(toks) ==
    IF Len(toks) = 1 /\ toks[1].name # ""
    THEN [valid |-> TRUE, color |-> Named(toks[1].name)]
    ELSE IF Len(toks) = 1 /\ toks[1].num >= 0
    THEN [valid |-> TRUE, color |-> Ansi256(toks[1].num)]
    ELSE IF Len(toks) = 3 /\ \A i \in 1..3 : toks[i].num >= 0
    THEN [valid |-> TRUE, color |-> Rgb(toks[1].num, toks[2].num, toks[3].num)]
    ELSE [valid |-> FALSE, color |-> Nonexhaustive]

(***************************************************************************)
(* Specifications                                                          *)
(***************************************************************************)
NoInput == [valid |-> FALSE, color |-> Nonexhaustive]

InitSink ==
    /\ writeStyle \in WriteStyles
    /\ colorOn \in BufferWriter_new(writeStyle)
    /\ bytes = <<>>
    /\ published = <<>>
    /\ borrowed = FALSE
    /\ panicked = FALSE

InitCaller ==
    /\ styles = [i \in StyleSlots |-> Formatter_style]
    /\ lastSet = [i \in StyleSlots |-> NeverSet]
    /\ svs = [s \in ValueSlots |-> NoValue]
    /\ stack = <<>>
    /\ trace = <<>>
    /\ nfmt = 0
    /\ lastOp = Op("new", "")

Init ==
    /\ InitSink
    /\ InitCaller
    /\ input = <<>> /\ expect = NoInput /\ parsed = None

Results == {"Ok", "Err"}

ValueLevels == {"Error"}

\* StyledValues made where they are formatted: write!(buf, "{}", style.value(..))
\* and write!(buf, "{}", formatter.default_styled_level(level))
Temporaries ==
    {Style_value(i) : i \in StyleSlots}
        \cup {Style_into_value(default_level_style(level)) : level \in ValueLevels}

\* Formatting into the sink, in every trait, nested formattings included
Next ==
    \/ \E sv \in Temporaries, t \in FmtTraits, r \in Results : FormatValue(sv, t, r)
    \/ \E sv \in Temporaries, t \in FmtTraits, r \in Results : NestedFormat(sv, t, r)
    \/ InnerWrite
    \/ \E r \in Results : InnerReturn(r)
    \/ \E r \in Results : Reset(r)
    \/ Clear

Spec == Init /\ [][Next]_vars

\* A logger built with WriteStyle::Never: the sink between the caller, the
\* formattings and the stream
NeverInit == Init /\ writeStyle = "Never"

NeverNext ==
    \/ Write
    \/ \E i \in StyleSlots, r \in Results : FormatValue(Style_value(i), "Display", r)
    \/ \E i \in StyleSlots, r \in Results : NestedFormat(Style_value(i), "Display", r)
    \/ InnerWrite
    \/ \E r \in Results : InnerReturn(r)
    \/ \E r \in Results : Reset(r)
    \/ Publish
    \/ Clear

NeverSpec == NeverInit /\ [][NeverNext]_vars

\* StyledValues the caller keeps, and the Styles they came from
ValueNext ==
    \/ \E i \in StyleSlots, yes \in BOOLEAN : SetBold(i, yes)
    \/ \E s \in ValueSlots, i \in StyleSlots : Value(s, i)
    \/ \E s \in ValueSlots, i \in StyleSlots : IntoValue(s, i)
    \/ \E s \in ValueSlots, level \in ValueLevels : DefaultStyledLevel(s, level)
    \/ \E s \in ValueSlots : DropValue(s)
    \/ \E s \in ValueSlots, r \in Results : FormatValue(svs[s], "Display", r)
    \/ \E r \in Results : InnerReturn(r)
    \/ \E r \in Results : Reset(r)
    \/ Clear

ValueSpec == Init /\ [][ValueNext]_vars

\* The Style builder
FgColors == {Ansi256(7), Nonexhaustive}
BgColors == {Rgb(0, 128, 255)}

StyleNext ==
    \/ \E i \in StyleSlots, c \in FgColors : SetColor(i, c)
    \/ \E i \in StyleSlots, c \in BgColors : SetBg(i, c)
    \/ \E i \in StyleSlots, yes \in BOOLEAN : SetBold(i, yes)
    \/ \E i \in StyleSlots, yes \in BOOLEAN : SetIntense(i, yes)
    \/ \E i \in StyleSlots, level \in Levels : DefaultLevelStyle(i, level)

StyleSpec == Init /\ [][StyleNext]_vars

\* Color::from_str
ParseInit ==
    /\ writeStyle = "Never" /\ colorOn = FALSE
    /\ bytes = <<>> /\ published = <<>> /\ borrowed = FALSE /\ panicked = FALSE
    /\ InitCaller
    /\ \E toks \in InputShapes : input = Join(toks) /\ expect = Expect(toks)
    /\ parsed = None

ParseNext == Parse

ParseSpec == ParseInit /\ [][ParseNext]_vars

(***************************************************************************)
(* Properties                                                              *)
(***************************************************************************)
\* The places in the trace where formatting fid did op
EventIdx(op, fid) == {k \in DOMAIN trace : trace[k].op = op /\ trace[k].fid = fid}

Applied(fid) == \E k \in EventIdx("apply", fid) : trace[k].res = "Ok"
Returned(fid) == EventIdx("return", fid) # {}

\* C1: a formatting whose style was applied resets the sink exactly once, and
\* only after the inner value's formatting has returned, whatever that returned.
C1_ResetExactlyOnce ==
    \A fid \in 1..nfmt :
        Applied(fid) =>
            /\ \A k \in EventIdx("reset", fid) :
                   \E j \in EventIdx("inner_return", fid) : j < k
            /\ Cardinality(EventIdx("reset", fid)) <= 1
            /\ Returned(fid) => Cardinality(EventIdx("reset", fid)) = 1

\* a formatting whose inner value failed has returned
C1_Witness ==
    \E fid \in 1..nfmt :
        /\ Applied(fid) /\ Returned(fid)
        /\ \E k \in EventIdx("inner_return", fid) : trace[k].res = "Err"

\* C2: once the style is applied, the formatting fails if the inner formatting
\* failed (whatever the reset did), fails if only the reset failed, and
\* succeeds only if both succeeded.
C2_ResultOfFormatting ==
    \A fid \in 1..nfmt :
        Applied(fid) /\ Returned(fid) =>
            /\ EventIdx("inner_return", fid) # {} /\ EventIdx("reset", fid) # {}
            /\ \A kw \in EventIdx("inner_return", fid), kr \in EventIdx("reset", fid),
                  kt \in EventIdx("return", fid) :
                   trace[kt].res = CASE trace[kw].res = "Err" -> "Err"
                                     [] trace[kw].res = "Ok" /\ trace[kr].res = "Err" -> "Err"
                                     [] OTHER -> "Ok"

\* a formatting whose inner value succeeded and whose reset failed has returned
C2_Witness ==
    \E fid \in 1..nfmt :
        /\ Applied(fid) /\ Returned(fid)
        /\ \E k \in EventIdx("inner_return", fid) : trace[k].res = "Ok"
        /\ \E k \in EventIdx("reset", fid) : trace[k].res = "Err"

\* C3: when applying the style fails the formatting returns the error at
\* once: the inner value is never formatted, nothing of it is written and the
\* sink is not reset.
C3_ApplyFailureEndsFormatting ==
    \A fid \in 1..nfmt :
        \A k \in EventIdx("apply", fid) :
            trace[k].res = "Err" =>
                /\ k + 1 \in DOMAIN trace /\ trace[k + 1] = Event("return", fid, "Err")
                /\ EventIdx("write", fid) = {}
                /\ EventIdx("inner_return", fid) = {}
                /\ EventIdx("reset", fid) = {}
                /\ \A f \in DOMAIN stack : stack[f].fid # fid

\* a nested formatting failed to apply its style
C3_Witness ==
    \E fid \in 2..nfmt : \E k \in EventIdx("apply", fid) : trace[k].res = "Err"

\* C4, as amended: the sink is borrowed for the apply call and for the reset
\* call only, never while the inner value is formatted; no borrow ever fails,
\* and a nested formatting on the same sink applies its style to it.
C4_BorrowPerCall ==
    /\ ~panicked
    /\ ~borrowed
    /\ stack # <<>> /\ colorOn =>
           \A fid \in 2..nfmt :
               Applied(fid) => \E k \in DOMAIN bytes : bytes[k] = Token("set", fid)

\* a nested formatting has applied its style and written its value to the sink
C4_Witness ==
    /\ Len(stack) = 2 /\ colorOn /\ Top.wrote
    /\ Top.applied # stack[1].applied

\* C4, as claimed: a formatting nested in another on the same sink fails fast
\* and never gets to apply its style.
C4_NestedFailsFast ==
    \A k \in DOMAIN trace :
        trace[k].op = "apply" /\ trace[k].fid > 1 => trace[k].res = "Err"

\* C7: with WriteStyle::Never the buffer and the stream hold data tokens
\* only, and no apply or reset step fails.
C7_NeverEmitsNoStyling ==
    writeStyle = "Never" =>
        /\ \A k \in DOMAIN bytes : bytes[k].t = "data"
        /\ \A k \in DOMAIN published : published[k].t = "data"
        /\ \A k \in DOMAIN trace :
               trace[k].op \in {"apply", "reset"} => trace[k].res = "Ok"

\* the stream holds what a formatted inner value wrote, and the buffer a
\* plain write after it
C7_Witness ==
    /\ writeStyle = "Never"
    /\ \E k \in DOMAIN published : published[k].fid > 0
    /\ \E k \in DOMAIN bytes : bytes[k].fid = 0
    /\ \E k \in DOMAIN trace : trace[k].op = "reset"

\* The terminal colour a Color stands for; the reserved marker stands for none
FieldFor(color) ==
    IF color = Nonexhaustive THEN None ELSE Some([tk |-> color.k, tv |-> color.v])

C8_LastCallWins ==
    \A i \in StyleSlots :
        LET last == lastSet[i]
            spec == styles[i].spec
        IN /\ spec.fg = (IF last.fg = None THEN None ELSE FieldFor(last.fg[1]))
           /\ spec.bg = (IF last.bg = None THEN None ELSE FieldFor(last.bg[1]))
           /\ spec.bold = (IF last.bold = None THEN FALSE ELSE last.bold[1])
           /\ spec.intense = (IF last.intense = None THEN FALSE ELSE last.intense[1])

OnlyChanged(field) ==
    /\ UNCHANGED sinkVars
    /\ \E i \in StyleSlots :
           /\ \A j \in StyleSlots \ {i} : styles'[j] = styles[j]
           /\ styles'[i].buf = styles[i].buf
           /\ \A f \in {"fg", "bg", "bold", "intense"} \ {field} :
                  styles'[i].spec[f] = styles[i].spec[f]

C8_SetterStep ==
    /\ lastOp'.op = "set_color" => OnlyChanged("fg")
    /\ lastOp'.op = "set_bg" => OnlyChanged("bg")
    /\ lastOp'.op = "set_bold" => OnlyChanged("bold")
    /\ lastOp'.op = "set_intense" => OnlyChanged("intense")

\* C8, as amended: each setter changes its own field only, to the given flag
\* or to the terminal colour of the given Color (none for the reserved
\* marker), and leaves the other fields, the other Styles and the sink alone;
\* each field holds what the last call of its setter gave it.
C8_SettersFrame == []C8_LastCallWins /\ [][C8_SetterStep]_vars

\* every setter has been called on one Style, set_color with the reserved marker
C8_Witness ==
    \E i \in StyleSlots :
        /\ lastSet[i].fg = Some(Nonexhaustive)
        /\ lastSet[i].bg # None /\ lastSet[i].bold = Some(FALSE)
        /\ lastSet[i].intense = Some(TRUE)

\* C8, as claimed: after set_color the foreground is the given Color
C8_FieldHoldsGivenColor ==
    \A i \in StyleSlots :
        lastSet[i].fg # None =>
            styles[i].spec.fg = Some([tk |-> lastSet[i].fg[1].k, tv |-> lastSet[i].fg[1].v])

\* C9: the Style a StyledValue is formatted with has the spec the Style had
\* when the StyledValue was made, while it waits and when it is applied.
C9_SnapshotApplied ==
    /\ \A s \in ValueSlots : svs[s].live => StyleOf(svs[s]).spec = svs[s].snap
    /\ \A f \in DOMAIN stack : stack[f].applied = stack[f].snap

\* a StyledValue owning a copy of a Style is being formatted after the Style
\* it was copied from was changed
C9_Witness ==
    /\ stack # <<>>
    /\ \E s \in ValueSlots :
           /\ svs[s].live /\ svs[s].cow = "Owned" /\ svs[s].ref \in StyleSlots
           /\ svs[s].snap # styles[svs[s].ref].spec
           /\ Top.applied = svs[s].snap

C10_Preset(level) ==
    [fg |-> CASE level = "Trace" -> Some(TcNamed("White"))
              [] level = "Debug" -> Some(TcNamed("Blue"))
              [] level = "Info" -> Some(TcNamed("Green"))
              [] level = "Warn" -> Some(TcNamed("Yellow"))
              [] level = "Error" -> Some(TcNamed("Red")),
     bg |-> None,
     bold |-> (level = "Error"),
     intense |-> FALSE]

\* C10: the Style default_level_style returns is bound to the formatter's
\* sink and has exactly the level's preset, whatever happened before.
C10_LevelPreset ==
    \A i \in StyleSlots :
        lastSet[i].preset # "" =>
            /\ lastSet[i].preset \in Levels
            /\ styles[i] = [buf |-> FormatterBuf, spec |-> C10_Preset(lastSet[i].preset)]

\* the Error preset has just replaced a Style
C10_Witness ==
    /\ lastOp.op = "default_level_style"
    /\ \E i \in StyleSlots : lastSet[i].preset = "Error"

\* C5: an input the grammar rejects fails to parse, and the error gives
\* back exactly the input.
C5_InvalidGivesInputBack ==
    parsed # None /\ ~expect.valid =>
        /\ ~parsed[1].ok
        /\ invalid(parsed[1].err[1]) = input

\* a triple with a component out of range was rejected
C5_Witness ==
    /\ parsed # None /\ ~expect.valid
    /\ Len(split_comma(input)) = 3
    /\ input # <<>> /\ input[Len(input)] = "6"

\* C6: an input of the grammar parses to the colour it denotes, never to the
\* reserved marker.
C6_ValidParses ==
    /\ parsed # None /\ expect.valid => parsed[1] = Ok(expect.color)
    /\ parsed # None /\ parsed[1].ok => parsed[1].val[1] # Nonexhaustive

\* 0xff was parsed as an indexed colour
C6_Witness ==
    /\ parsed # None /\ expect.valid
    /\ input = <<"0", "x", "f", "f">>
    /\ parsed[1].val[1].k = "Ansi256"

====
